---- MODULE Spec2Model ----
(***************************************************************************)
(* A model of pubmed_paper_fetcher/fetch_papers.py: the two network-facing *)
(* functions fetch_paper_ids and fetch_paper_details, the author           *)
(* classification identify_non_academic_authors, the CSV writer and the    *)
(* command line run main().                                                *)
(*                                                                         *)
(* Python values are modelled as follows.                                  *)
(*   str   a sequence of one-character strings                             *)
(*   None  the value None below, which no str equals                       *)
(*   dict  a function from the keys that are present to their values,      *)
(*         wrapped as [type |-> "dict", val |-> f] wherever the code may   *)
(*         meet a JSON value that is not a dict (isinstance / .get)        *)
(*   list  a sequence                                                      *)
(***************************************************************************)
EXTENDS Integers, Sequences, FiniteSets, TLC

VARIABLES pc, entry, args_file, calls, search_resp, detail_resp,
          paper_ids, papers, idx, authors, non_academic_authors,
          results, stdout, csv_file, error

vars == <<pc, entry, args_file, calls, search_resp, detail_resp,
          paper_ids, papers, idx, authors, non_academic_authors,
          results, stdout, csv_file, error>>

---------------------------------------------------------------------------
(* Bounds of the model.                                                    *)

\* the most ids a modelled search response lists in a run of main()
MaxIds == 2
\* the most author entries of a list handed to identify_non_academic_authors
MaxAuthors == 2

---------------------------------------------------------------------------
(* Python values.                                                          *)

None == <<"None">>
EmptyStr == <<>>
EmptyDict == <<>>
Dict(d) == [type |-> "dict", val |-> d]
\* a JSON value that is not an object (a string, a number, a list, null)
NotDict == [type |-> "str", val |-> <<>>]
\* isinstance(v, dict)
IsDict(v) == v.type = "dict"
\* d.get(k, default)
Get(d, k, default) == IF k \in DOMAIN d THEN d[k] ELSE default
\* a test that only rules out None (`is not None` for `if affiliation`)
TruthyNotNone(v) == v # None
\* the truth value Python gives a str or None
Truthy(v) == v # None /\ Len(v) > 0

UpperCase == <<"A","B","C","D","E","F","G","H","I","J","K","L","M",
               "N","O","P","Q","R","S","T","U","V","W","X","Y","Z">>
LowerCase == <<"a","b","c","d","e","f","g","h","i","j","k","l","m",
               "n","o","p","q","r","s","t","u","v","w","x","y","z">>
\* the case folding re.IGNORECASE applies to an ASCII character
Fold(c) ==
    IF \E k \in 1..Len(UpperCase) : UpperCase[k] = c
    THEN LowerCase[CHOOSE k \in 1..Len(UpperCase) : UpperCase[k] = c]
    ELSE c

\* the alternatives of r"university|college|institute|lab"
Keywords ==
    { <<"u","n","i","v","e","r","s","i","t","y">>,
      <<"c","o","l","l","e","g","e">>,
      <<"i","n","s","t","i","t","u","t","e">>,
      <<"l","a","b">> }

\* whether alternative kw matches s at position p, ignoring case
MatchAt(kw, s, p) ==
    /\ p + Len(kw) - 1 <= Len(s)
    /\ \A j \in 1..Len(kw) : Fold(s[p + j - 1]) = Fold(kw[j])

\* the search without re.IGNORECASE
ReSearchCaseSensitive(s) ==
    \E p \in 1..Len(s) : \E kw \in Keywords :
        /\ p + Len(kw) - 1 <= Len(s)
        /\ \A j \in 1..Len(kw) : s[p + j - 1] = kw[j]
\* re.search(r"university|college|institute|lab", s, re.IGNORECASE) is not None
ReSearch(s) ==
    \E p \in 1..Len(s) : \E kw \in Keywords : MatchAt(kw, s, p)

\* sep.join(parts) for a list of str
RECURSIVE Join(_, _)
Join(parts, sep) ==
    IF Len(parts) = 0 THEN EmptyStr
    ELSE IF Len(parts) = 1 THEN parts[1]
    ELSE parts[1] \o sep \o Join(Tail(parts), sep)

---------------------------------------------------------------------------
(* Paper ids and the two requests.                                         *)

Digits == <<"0","1","2","3","4","5","6","7","8","9">>
\* the decimal id string of n, for 1 <= n <= 99
IdOf(n) ==
    IF n < 10 THEN <<Digits[n + 1]>>
    ELSE <<Digits[(n \div 10) + 1], Digits[(n % 10) + 1]>>

\* "retmax": 10 of the search request
retmax == 10

PUBMED_API_URL == "esearch.fcgi"
DETAILS_API_URL == "esummary.fcgi"

SearchRequest ==
    [url |-> PUBMED_API_URL, db |-> "pubmed", retmax |-> retmax,
     retmode |-> "json"]
DetailRequest(ids) ==
    [url |-> DETAILS_API_URL, db |-> "pubmed", id |-> Join(ids, <<",">>),
     retmode |-> "json"]

\* What a function call comes to: the exception it raised ("none": it
\* returned), the value it returned, and the requests it sent.
Returned(v, reqs) == [err |-> "none", val |-> v, calls |-> reqs]
Raised(e, reqs) == [err |-> e, val |-> <<>>, calls |-> reqs]

\* An HTTP response: status is "ok" or "error" (what raise_for_status
\* looks at), json says whether response.json() parses the body, body is
\* the parsed top-level JSON object.
NoResponse == [status |-> "none", json |-> FALSE, body |-> EmptyDict]
HttpError == [status |-> "error", json |-> FALSE, body |-> EmptyDict]
BadJson == [status |-> "ok", json |-> FALSE, body |-> EmptyDict]
Ok(body) == [status |-> "ok", json |-> TRUE, body |-> body]

\* fetch_paper_ids with the failures swallowed: an empty list instead
FetchPaperIdsSwallow(resp) ==
    IF resp.status # "ok" \/ ~resp.json THEN Returned(<<>>, <<SearchRequest>>)
    ELSE Returned(Get(Get(resp.body, "esearchresult", EmptyDict),
                      "idlist", <<>>),
                  <<SearchRequest>>)
\* fetch_paper_ids indexing data["esearchresult"]["idlist"] instead of .get
FetchPaperIdsIndexing(resp) ==
    IF resp.status # "ok" THEN Raised("HTTPError", <<SearchRequest>>)
    ELSE IF ~resp.json THEN Raised("JSONDecodeError", <<SearchRequest>>)
    ELSE IF "esearchresult" \notin DOMAIN resp.body
            \/ "idlist" \notin DOMAIN resp.body["esearchresult"]
    THEN Raised("KeyError", <<SearchRequest>>)
    ELSE Returned(resp.body["esearchresult"]["idlist"], <<SearchRequest>>)
\* fetch_paper_ids(query), given the response requests.get comes back with
FetchPaperIds(resp) ==
    IF resp.status # "ok" THEN Raised("HTTPError", <<SearchRequest>>)
    ELSE IF ~resp.json THEN Raised("JSONDecodeError", <<SearchRequest>>)
    ELSE Returned(Get(Get(resp.body, "esearchresult", EmptyDict),
                      "idlist", <<>>),
                  <<SearchRequest>>)

\* the loop of fetch_paper_details over paper_ids[k..], result being
\* data.get("result", {})
RECURSIVE CollectPapers(_, _, _)
CollectPapers(ids, result, k) ==
    IF k > Len(ids) THEN <<>>
    ELSE LET paper_data == Get(result, ids[k], Dict(EmptyDict))
         IN  (IF IsDict(paper_data) THEN <<paper_data>> ELSE <<>>)
             \o CollectPapers(ids, result, k + 1)

\* fetch_paper_details sending one request for each id
FetchPaperDetailsPerId(ids, resp) ==
    LET reqs == [k \in 1..Len(ids) |-> DetailRequest(<<ids[k]>>)]
    IN  IF Len(ids) = 0 THEN Returned(<<>>, <<>>)
        ELSE IF resp.status # "ok" THEN Raised("HTTPError", reqs)
        ELSE IF ~resp.json THEN Raised("JSONDecodeError", reqs)
        ELSE LET result == Get(resp.body, "result", Dict(EmptyDict))
             IN  IF ~IsDict(result) THEN Raised("AttributeError", reqs)
                 ELSE Returned(CollectPapers(ids, result.val, 1), reqs)
\* fetch_paper_details(paper_ids), given the response requests.get would
\* come back with
FetchPaperDetails(ids, resp) ==
    IF Len(ids) = 0 THEN Returned(<<>>, <<>>)
    ELSE IF resp.status # "ok"
    THEN Raised("HTTPError", <<DetailRequest(ids)>>)
    ELSE IF ~resp.json
    THEN Raised("JSONDecodeError", <<DetailRequest(ids)>>)
    ELSE LET result == Get(resp.body, "result", Dict(EmptyDict))
         IN  IF ~IsDict(result)
             THEN Raised("AttributeError", <<DetailRequest(ids)>>)
             ELSE Returned(CollectPapers(ids, result.val, 1),
                           <<DetailRequest(ids)>>)

\* the loop of identify_non_academic_authors from authors[k] on, with
\* non_academic as filled so far; an author entry that is no dict has no
\* .get and raises AttributeError
RECURSIVE ClassifyFrom(_, _, _)
ClassifyFrom(as, k, non_academic) ==
    IF k > Len(as) THEN Returned(non_academic, <<>>)
    ELSE IF ~IsDict(as[k]) THEN Raised("AttributeError", <<>>)
    ELSE LET author == as[k].val
             affiliation == Get(author, "affiliation", EmptyStr)
         IN  IF Truthy(affiliation) /\ ~ReSearch(affiliation)
             THEN ClassifyFrom(as, k + 1,
                      Append(non_academic,
                             [name |-> Get(author, "name", None),
                              affiliation |-> affiliation]))
             ELSE ClassifyFrom(as, k + 1, non_academic)

IdentifyNonAcademicAuthors(as) == ClassifyFrom(as, 1, <<>>)

NA == <<"N","/","A">>
\* the join without its `or "N/A"`
OrNADropped(s) == s
\* Python's `s or "N/A"` for a str s
OrNA(s) == IF Len(s) > 0 THEN s ELSE NA

\* [a[key] for a in non_academic_authors]
Column(rows, key) == [k \in 1..Len(rows) |-> rows[k][key]]

\* lines 89-96 of main(): the row appended for a paper (a dict) and its
\* non-academic authors; ", ".join raises TypeError on a name that is None
Row(paper, non_academic) ==
    LET names == Column(non_academic, "name")
        affs == Column(non_academic, "affiliation")
    IN  IF \E k \in 1..Len(names) : names[k] = None
        THEN Raised("TypeError", <<>>)
        ELSE Returned(
               [PubmedID |-> Get(paper, "uid", None),
                Title |-> Get(paper, "title", NA),
                PublicationDate |-> Get(paper, "pubdate", NA),
                NonAcademicAuthors |-> OrNA(Join(names, <<",", " ">>)),
                CompanyAffiliations |-> OrNA(Join(affs, <<",", " ">>)),
                CorrespondingAuthorEmail |->
                    Get(paper, "corresponding_author", NA)],
               <<>>)

\* main()'s test without the early return
NoPapersNever(ids) == FALSE
\* `if not paper_ids` of main()
NoPapers(ids) == Len(ids) = 0

\* the fieldnames write_to_csv gives csv.DictWriter
FieldNames ==
    <<"PubmedID", "Title", "Publication Date", "Non-academic Authors",
      "Company Affiliations", "Corresponding Author Email">>

\* what print() puts on standard output: a message, or a row's dict
Text(t) == [kind |-> "text", text |-> t]
Printed(row) == [kind |-> "row", row |-> row]

---------------------------------------------------------------------------
(* The inputs: what the upstream may answer and what a caller may pass.    *)

Ids == {IdOf(n) : n \in 1..MaxIds}

\* the lists of up to n elements of S
SeqsUpTo(S, n) == UNION {[1..m -> S] : m \in 0..n}
NoRepeat(q) == \A a, b \in 1..Len(q) : a # b => q[a] # q[b]

\* id lists as a search lists them: no id twice, any order
IdLists == {q \in SeqsUpTo(Ids, MaxIds) : NoRepeat(q)}
\* an id list longer than the retmax asked for
OverCapIdList == [n \in 1..(retmax + 1) |-> IdOf(n)]

SearchBodies(lists) ==
    {EmptyDict, [esearchresult |-> EmptyDict]}
    \cup {[esearchresult |-> [idlist |-> q]] : q \in lists}
SearchResponses(lists) ==
    {HttpError, BadJson} \cup {Ok(b) : b \in SearchBodies(lists)}

Names == {<<"A">>, <<"B">>}
Affiliations ==
    { None,
      EmptyStr,
      <<" ">>,
      <<"A","c","m","e">>,
      <<"G","l","o","b","a","l">>,
      <<"M","I","T"," ","L","a","b">>,
      <<"C","o","l","l","a","b","o","r","a","t","e">>,
      <<"u","n","i","v","e","r","s","i","t","y">>,
      <<"X"," ","C","O","L","L","E","G","E">>,
      <<"I","n","s","t","i","t","u","t","e"," ","Y">> }

\* the dict d without the keys outside K
Restrict(d, K) == [k \in (DOMAIN d) \cap K |-> d[k]]

\* author entries: every choice of name and affiliation, each key present
\* or absent, and an entry that is no dict
AuthorDicts ==
    {Restrict([name |-> n, affiliation |-> a], K) :
        n \in Names, a \in Affiliations, K \in SUBSET {"name", "affiliation"}}
AuthorEntries == {Dict(d) : d \in AuthorDicts} \cup {NotDict}
AuthorLists == SeqsUpTo(AuthorEntries, MaxAuthors)

\* the author lists of the papers a detail response carries
Academic == Dict([name |-> <<"A">>,
                  affiliation |-> <<"M","I","T"," ","L","a","b">>])
Company == Dict([name |-> <<"B">>, affiliation |-> <<"A","c","m","e">>])
Nameless == Dict([affiliation |-> <<"A","c","m","e">>])
PaperAuthorLists ==
    { <<Academic>>, <<Academic, Company>>, <<Nameless>>, <<NotDict>> }

PaperKeys == {"uid", "title", "pubdate", "authors", "corresponding_author"}
FullPaper(id, as) ==
    [uid |-> id, title |-> <<"T">>, pubdate |-> <<"2","0","2","4">>,
     authors |-> as, corresponding_author |-> <<"e","@","x">>]
\* which keys a record carries: all, all but uid, all but authors, or none
KeySets ==
    {PaperKeys, {}} \cup {PaperKeys \ {k} : k \in {"uid", "authors"}}
\* the shapes an entry of "result" takes, whatever its id: no dict; a full
\* record with each author list; a record short of keys
EntryShapes ==
    {[dict |-> FALSE, keys |-> {}, authors |-> <<>>]}
    \cup {[dict |-> TRUE, keys |-> PaperKeys, authors |-> as] :
            as \in PaperAuthorLists}
    \cup {[dict |-> TRUE, keys |-> K, authors |-> <<Company, Company>>] :
            K \in KeySets \ {PaperKeys}}
EntryOf(shape, id) ==
    IF shape.dict THEN Dict(Restrict(FullPaper(id, shape.authors), shape.keys))
    ELSE NotDict

\* the "result" objects for a request of ids: an entry for some of them
ResultMaps(ids) ==
    UNION {{[id \in S |-> EntryOf(sh[id], id)] : sh \in [S -> EntryShapes]} :
              S \in SUBSET {ids[k] : k \in 1..Len(ids)}}
DetailBodies(ids) ==
    {EmptyDict, [result |-> NotDict]}
    \cup {[result |-> Dict(m)] : m \in ResultMaps(ids)}
DetailResponses(ids) ==
    {HttpError, BadJson} \cup {Ok(b) : b \in DetailBodies(ids)}

---------------------------------------------------------------------------
(* The state machine.  pc is "idle" before anything is called, "details"  *)
(* and "loop" inside main(), "done" when main() has returned, "returned"  *)
(* when a function called on its own has returned, and "error" when an    *)
(* exception has propagated out.  entry names what was called.            *)

Init ==
    /\ pc = "idle"
    /\ entry = "none"
    /\ args_file = FALSE
    /\ calls = <<>>
    /\ search_resp = NoResponse
    /\ detail_resp = NoResponse
    /\ paper_ids = <<>>
    /\ papers = <<>>
    /\ idx = 0
    /\ authors = <<>>
    /\ non_academic_authors = <<>>
    /\ results = <<>>
    /\ stdout = <<>>
    /\ csv_file = [opened |-> FALSE, header |-> <<>>, rows |-> <<>>]
    /\ error = "none"

\* main(), lines 69-77: parse the arguments, search, stop on no ids
MainSearch ==
    /\ pc = "idle"
    /\ \E f \in BOOLEAN, resp \in SearchResponses(IdLists) :
        \E r \in {FetchPaperIds(resp)} :
            /\ entry' = "main"
            /\ args_file' = f
            /\ search_resp' = resp
            /\ calls' = calls \o r.calls
            /\ IF r.err # "none"
               THEN /\ pc' = "error"
                    /\ error' = r.err
                    /\ UNCHANGED <<paper_ids, stdout>>
               ELSE /\ paper_ids' = r.val
                    /\ error' = error
                    /\ IF NoPapers(r.val)
                       THEN /\ stdout' = Append(stdout, Text("No papers found."))
                            /\ pc' = "done"
                       ELSE /\ stdout' = stdout
                            /\ pc' = "details"
    /\ UNCHANGED <<detail_resp, papers, idx, authors, non_academic_authors,
                   results, csv_file>>

\* main(), lines 79-80: fetch the details of the ids found
MainDetails ==
    /\ pc = "details"
    /\ \E resp \in DetailResponses(paper_ids) :
        \E r \in {FetchPaperDetails(paper_ids, resp)} :
            /\ detail_resp' = IF Len(r.calls) = 0 THEN detail_resp ELSE resp
            /\ calls' = calls \o r.calls
            /\ IF r.err # "none"
               THEN /\ pc' = "error"
                    /\ error' = r.err
                    /\ UNCHANGED <<papers, idx, results>>
               ELSE /\ papers' = r.val
                    /\ results' = <<>>
                    /\ idx' = 1
                    /\ pc' = "loop"
                    /\ error' = error
    /\ UNCHANGED <<entry, args_file, search_resp, paper_ids, authors,
                   non_academic_authors, stdout, csv_file>>

\* main(), lines 82-96: one turn of the loop over papers
MainLoop ==
    /\ pc = "loop"
    /\ idx <= Len(papers)
    /\ LET paper == papers[idx]
       IN  IF ~IsDict(paper)
           THEN /\ idx' = idx + 1
                /\ UNCHANGED <<pc, error, authors, non_academic_authors,
                               results>>
           ELSE LET as == Get(paper.val, "authors", <<>>)
                    cls == IdentifyNonAcademicAuthors(as)
                    row == Row(paper.val, cls.val)
                IN  /\ authors' = as
                    /\ IF cls.err # "none"
                       THEN /\ pc' = "error"
                            /\ error' = cls.err
                            /\ UNCHANGED <<idx, non_academic_authors, results>>
                       ELSE /\ non_academic_authors' = cls.val
                            /\ IF row.err # "none"
                               THEN /\ pc' = "error"
                                    /\ error' = row.err
                                    /\ UNCHANGED <<idx, results>>
                               ELSE /\ results' = Append(results, row.val)
                                    /\ idx' = idx + 1
                                    /\ UNCHANGED <<pc, error>>
    /\ UNCHANGED <<entry, args_file, calls, search_resp, detail_resp,
                   paper_ids, papers, stdout, csv_file>>

\* main(), lines 98-103, with write_to_csv (lines 60-65): save or print the
\* rows; open() either gives the file or raises OSError
MainOutput ==
    /\ pc = "loop"
    /\ idx > Len(papers)
    /\ IF args_file
       THEN \E opens \in BOOLEAN :
              IF opens
              THEN /\ csv_file' = [opened |-> TRUE, header |-> FieldNames,
                                   rows |-> results]
                   /\ stdout' = Append(stdout, Text("Results saved to"))
                   /\ pc' = "done"
                   /\ error' = error
              ELSE /\ pc' = "error"
                   /\ error' = "OSError"
                   /\ UNCHANGED <<csv_file, stdout>>
       ELSE /\ stdout' = stdout \o [k \in 1..Len(results) |-> Printed(results[k])]
            /\ pc' = "done"
            /\ UNCHANGED <<csv_file, error>>
    /\ UNCHANGED <<entry, args_file, calls, search_resp, detail_resp,
                   paper_ids, papers, idx, authors, non_academic_authors,
                   results>>

\* fetch_paper_ids called on its own
CallFetchPaperIds ==
    /\ pc = "idle"
    /\ \E resp \in SearchResponses(IdLists \cup {OverCapIdList}) :
        \E r \in {FetchPaperIds(resp)} :
            /\ entry' = "fetch_paper_ids"
            /\ search_resp' = resp
            /\ calls' = calls \o r.calls
            /\ paper_ids' = r.val
            /\ error' = r.err
            /\ pc' = IF r.err # "none" THEN "error" ELSE "returned"
    /\ UNCHANGED <<args_file, detail_resp, papers, idx, authors,
                   non_academic_authors, results, stdout, csv_file>>

\* fetch_paper_details called on its own, with any id list
CallFetchPaperDetails ==
    /\ pc = "idle"
    /\ \E ids \in IdLists : \E resp \in DetailResponses(ids) :
        \E r \in {FetchPaperDetails(ids, resp)} :
            /\ entry' = "fetch_paper_details"
            /\ paper_ids' = ids
            /\ detail_resp' = IF Len(r.calls) = 0 THEN detail_resp ELSE resp
            /\ calls' = calls \o r.calls
            /\ papers' = r.val
            /\ error' = r.err
            /\ pc' = IF r.err # "none" THEN "error" ELSE "returned"
    /\ UNCHANGED <<args_file, search_resp, idx, authors,
                   non_academic_authors, results, stdout, csv_file>>

\* identify_non_academic_authors called on its own, with any author list
CallIdentify ==
    /\ pc = "idle"
    /\ \E as \in AuthorLists :
        \E r \in {IdentifyNonAcademicAuthors(as)} :
            /\ entry' = "identify_non_academic_authors"
            /\ authors' = as
            /\ non_academic_authors' = r.val
            /\ error' = r.err
            /\ pc' = IF r.err # "none" THEN "error" ELSE "returned"
    /\ UNCHANGED <<args_file, calls, search_resp, detail_resp, paper_ids,
                   papers, idx, results, stdout, csv_file>>

Next ==
    \/ MainSearch
    \/ MainDetails
    \/ MainLoop
    \/ MainOutput
    \/ CallFetchPaperIds
    \/ CallFetchPaperDetails
    \/ CallIdentify

Spec == Init /\ [][Next]_vars

---------------------------------------------------------------------------
(* The claims.                                                             *)

\* s in lower case
Lowered(s) == [k \in 1..Len(s) |-> Fold(s[k])]
\* s contains, case-insensitively, one of university, college, institute, lab
HasKeyword(s) ==
    \E kw \in Keywords : \E p \in 1..(Len(s) - Len(kw) + 1) :
        SubSeq(Lowered(s), p, p + Len(kw) - 1) = kw
\* the affiliation of an author entry (a dict), None when the key is absent
AffiliationOf(a) ==
    IF "affiliation" \in DOMAIN a.val THEN a.val["affiliation"] ELSE None
NameOf(a) == IF "name" \in DOMAIN a.val THEN a.val["name"] ELSE None
\* all of s is blanks (so is the empty string)
IsBlank(s) == \A k \in 1..Len(s) : s[k] = " "
\* the positions of as whose author has a non-empty affiliation with no keyword
NonAcademicAt(as) ==
    {k \in 1..Len(as) :
        /\ AffiliationOf(as[k]) # None
        /\ Len(AffiliationOf(as[k])) > 0
        /\ ~HasKeyword(AffiliationOf(as[k]))}
\* the j-th smallest element of the set of positions P
Nth(P, j) == CHOOSE k \in P : Cardinality({m \in P : m < k}) = j - 1

\* identify_non_academic_authors has returned non_academic_authors for authors
Classified ==
    \/ entry = "identify_non_academic_authors" /\ pc = "returned"
    \/ entry = "main" /\ pc \in {"loop", "done"} /\ Len(results) > 0

\* C1: the output of identify_non_academic_authors holds exactly the authors
\* whose affiliation is non-empty and contains none of the keywords
\* (ignoring case), each with its name and its whole affiliation, in the
\* order of the input; an author whose affiliation contains a keyword is
\* not in it.
C1_Classification ==
    Classified =>
        LET P == NonAcademicAt(authors)
        IN  /\ Len(non_academic_authors) = Cardinality(P)
            /\ \A j \in 1..Len(non_academic_authors) :
                 /\ non_academic_authors[j].name = NameOf(authors[Nth(P, j)])
                 /\ non_academic_authors[j].affiliation
                      = AffiliationOf(authors[Nth(P, j)])
            /\ \A j \in 1..Len(non_academic_authors) :
                 ~HasKeyword(non_academic_authors[j].affiliation)

C1_Witness ==
    /\ entry = "identify_non_academic_authors"
    /\ pc = "returned"
    /\ authors = << Dict([name |-> <<"A">>,
                          affiliation |-> <<"X"," ","C","O","L","L","E","G","E">>]),
                    Dict([name |-> <<"B">>,
                          affiliation |-> <<"G","l","o","b","a","l">>]) >>
    /\ non_academic_authors
         = << [name |-> <<"B">>, affiliation |-> <<"G","l","o","b","a","l">>] >>

\* C2 as claimed: no author whose affiliation is absent, empty or
\* whitespace-only is in the output.
C2_BlankExcluded ==
    Classified =>
        \A j \in 1..Len(non_academic_authors) :
            /\ non_academic_authors[j].affiliation # None
            /\ ~IsBlank(non_academic_authors[j].affiliation)

\* C2 as amended: no author whose affiliation is absent, null or the empty
\* string is in the output, whatever the name; an author whose affiliation
\* is whitespace-only is in the output.
C2_EmptyExcluded ==
    Classified =>
        /\ \A j \in 1..Len(non_academic_authors) :
             /\ non_academic_authors[j].affiliation # None
             /\ non_academic_authors[j].affiliation # EmptyStr
        /\ Len(non_academic_authors)
             <= Cardinality({k \in 1..Len(authors) :
                               /\ AffiliationOf(authors[k]) # None
                               /\ AffiliationOf(authors[k]) # EmptyStr})
        /\ \A k \in 1..Len(authors) :
             LET a == AffiliationOf(authors[k])
             IN  (a # None /\ a # EmptyStr /\ IsBlank(a)) =>
                   \E j \in 1..Len(non_academic_authors) :
                      /\ non_academic_authors[j].affiliation = a
                      /\ non_academic_authors[j].name = NameOf(authors[k])

C2_Witness ==
    /\ entry = "identify_non_academic_authors"
    /\ pc = "returned"
    /\ authors = << Dict([name |-> <<"A">>]),
                    Dict([name |-> <<"B">>, affiliation |-> <<" ">>]) >>
    /\ non_academic_authors = << [name |-> <<"B">>, affiliation |-> <<" ">>] >>

\* the upstream answered the detail request with a record (a dict) for id
WellFormed(resp, id) ==
    /\ "result" \in DOMAIN resp.body
    /\ IsDict(resp.body["result"])
    /\ id \in DOMAIN resp.body["result"].val
    /\ IsDict(resp.body["result"].val[id])
\* the records the upstream answered for ids[k..], in the order of ids
RECURSIVE WellFormedRecords(_, _, _)
WellFormedRecords(ids, resp, k) ==
    IF k > Len(ids) THEN <<>>
    ELSE (IF WellFormed(resp, ids[k])
          THEN <<resp.body["result"].val[ids[k]]>> ELSE <<>>)
         \o WellFormedRecords(ids, resp, k + 1)
\* the ids among ids[k..] the upstream answered with a record, in order
RECURSIVE WellFormedIds(_, _, _)
WellFormedIds(ids, resp, k) ==
    IF k > Len(ids) THEN <<>>
    ELSE (IF WellFormed(resp, ids[k]) THEN <<ids[k]>> ELSE <<>>)
         \o WellFormedIds(ids, resp, k + 1)

\* fetch_paper_details has returned papers for a non-empty paper_ids
DetailsReturned ==
    /\ Len(paper_ids) > 0
    /\ \/ entry = "fetch_paper_details" /\ pc = "returned"
       \/ entry = "main" /\ idx >= 1

\* C3: for a non-empty id list and a successful response, fetch_paper_details
\* returns exactly the records the upstream gave for the ids, in the order
\* of the ids; an id whose entry is missing or is no dict adds nothing.
C3_OnlyWellFormedRecords ==
    DetailsReturned => papers = WellFormedRecords(paper_ids, detail_resp, 1)

\* C4: in a completed run the PubmedID values of the rows are the searched
\* ids whose detail entry is a record, in search order; an id whose entry
\* is missing or malformed has no row.
C4_RowIdsFollowSearch ==
    (entry = "main" /\ pc = "done" /\ Len(paper_ids) > 0) =>
        [k \in 1..Len(results) |-> results[k].PubmedID]
            = WellFormedIds(paper_ids, detail_resp, 1)

\* the id list an answered search carries, empty when the path is absent
UpstreamIdList(resp) ==
    IF "esearchresult" \in DOMAIN resp.body
       /\ "idlist" \in DOMAIN resp.body["esearchresult"]
    THEN resp.body["esearchresult"]["idlist"]
    ELSE <<>>
Answered(resp) == resp.status = "ok" /\ resp.json
\* the call got an answer that is a transport failure
Failed(resp) == resp.status = "error" \/ (resp.status = "ok" /\ ~resp.json)

\* C5: when the search of a run answers with no ids, the run prints
\* "No papers found." and ends normally having made the search call only,
\* with no row printed and no file opened, -f given or not.
C5_NoPapersFound ==
    (entry = "main" /\ Answered(search_resp)
       /\ UpstreamIdList(search_resp) = <<>>) =>
        /\ pc = "done"
        /\ error = "none"
        /\ stdout = <<Text("No papers found.")>>
        /\ calls = <<SearchRequest>>
        /\ detail_resp = NoResponse
        /\ results = <<>>
        /\ ~csv_file.opened

C5_Witness ==
    /\ entry = "main"
    /\ args_file
    /\ pc = "done"
    /\ search_resp = Ok([esearchresult |-> [idlist |-> <<>>]])
    /\ stdout = <<Text("No papers found.")>>

\* C6: once both network calls of a run have succeeded, no shape of the
\* author entries makes the run end in an exception.
C6_AuthorsNeverFail ==
    (entry = "main" /\ idx >= 1) =>
        ~(pc = "error" /\ error \in {"TypeError", "AttributeError"})

\* the authors of a paper record (a dict), none when the key is absent
AuthorsOf(paper) ==
    IF "authors" \in DOMAIN paper.val THEN paper.val["authors"] ELSE <<>>

\* C7: the row of a paper none of whose authors is non-academic has "N/A"
\* as its Non-academic Authors and as its Company Affiliations, and a row
\* has "N/A" as its Title, its Publication Date and its Corresponding
\* Author Email when the paper record lacks the field.
C7_PlaceholderNA ==
    entry = "main" =>
        \A k \in 1..Len(results) :
            /\ NonAcademicAt(AuthorsOf(papers[k])) = {} =>
                 /\ results[k].NonAcademicAuthors = NA
                 /\ results[k].CompanyAffiliations = NA
            /\ "title" \notin DOMAIN papers[k].val => results[k].Title = NA
            /\ "pubdate" \notin DOMAIN papers[k].val =>
                 results[k].PublicationDate = NA
            /\ "corresponding_author" \notin DOMAIN papers[k].val =>
                 results[k].CorrespondingAuthorEmail = NA
            /\ results[k].NonAcademicAuthors # EmptyStr
            /\ results[k].CompanyAffiliations # EmptyStr

C7_Witness ==
    /\ entry = "main"
    /\ pc = "done"
    /\ Len(results) = 2
    /\ AuthorsOf(papers[1]) = <<Academic>>
    /\ results[1].NonAcademicAuthors = NA
    /\ results[1].CompanyAffiliations = NA
    /\ DOMAIN papers[2].val = {}
    /\ results[2].Title = NA
    /\ results[2].PublicationDate = NA
    /\ results[2].CorrespondingAuthorEmail = NA

\* C8: a run makes the search call first and once, and the detail call at
\* most once, after a search that answered with ids; fetch_paper_details
\* makes one call for a non-empty id list of any length, and for an empty
\* one makes none and returns the empty list.
C8_CallOrder ==
    /\ entry = "main" =>
         /\ Len(calls) \in {1, 2}
         /\ calls[1] = SearchRequest
         /\ Len(calls) = 2 =>
              /\ calls[2] = DetailRequest(paper_ids)
              /\ Answered(search_resp)
              /\ Len(UpstreamIdList(search_resp)) > 0
         /\ pc \in {"loop", "done"} /\ Len(paper_ids) > 0 => Len(calls) = 2
    /\ entry = "fetch_paper_details" =>
         /\ Len(paper_ids) > 0 => calls = <<DetailRequest(paper_ids)>>
         /\ Len(paper_ids) = 0 =>
              calls = <<>> /\ papers = <<>> /\ pc = "returned"

C8_Witness ==
    /\ entry = "main"
    /\ pc = "done"
    /\ Len(paper_ids) = 2
    /\ Len(calls) = 2
    /\ calls[1].url = PUBMED_API_URL
    /\ calls[2].url = DETAILS_API_URL

\* C9: a run whose search call or detail call fails (HTTP status, or a body
\* that does not parse) ends in error with that call its last, no row
\* produced, nothing printed and no file opened.
C9_TransportFailureFatal ==
    entry = "main" =>
        /\ Failed(search_resp) =>
             /\ pc = "error"
             /\ error \in {"HTTPError", "JSONDecodeError"}
             /\ calls = <<SearchRequest>>
             /\ detail_resp = NoResponse
             /\ results = <<>> /\ stdout = <<>> /\ ~csv_file.opened
        /\ Failed(detail_resp) =>
             /\ pc = "error"
             /\ error \in {"HTTPError", "JSONDecodeError"}
             /\ calls = <<SearchRequest, DetailRequest(paper_ids)>>
             /\ results = <<>> /\ stdout = <<>> /\ ~csv_file.opened

C9_Witness ==
    /\ entry = "main"
    /\ args_file
    /\ pc = "error"
    /\ Len(paper_ids) = 2
    /\ detail_resp = BadJson
    /\ error = "JSONDecodeError"

====
